---- MODULE Spec2Model ----
(***************************************************************************)
(* Capture-session lifecycle of the live music visualiser:                 *)
(* AudioProcessor (src/audio.js) driven by LiveMusicArtwork (src/app.js).  *)
(*                                                                         *)
(* JavaScript is single-threaded and run-to-completion, so every action    *)
(* below is one task: an event handler, a timer callback, an animation     *)
(* frame callback, or the continuation of an async function after an       *)
(* await, together with the microtasks it triggers (the continuation of    *)
(* start() after initialize() settles runs in the same microtask           *)
(* checkpoint as the end of initialize()).                                 *)
(*                                                                         *)
(* The platform objects are modelled by what the code can observe or       *)
(* cause: a MediaStream from getUserMedia({audio}) carries one audio track *)
(* that is live until it is stopped or ends; track.stop() fires no 'ended' *)
(* event; an AudioContext is running until closed; the awaits of           *)
(* initialize() before getUserMedia (resume, enumerateDevices) assign no   *)
(* field, so they are merged with the getUserMedia await.                  *)
(*                                                                         *)
(* The analysis of a frame is computed as analyzeAudio() computes it, on   *)
(* an analyser with BufferLength bins whose magnitude bytes are the        *)
(* variable sound and with Date.now() the variable clock. Quotients are    *)
(* kept exact: a volume is the numerator of a fraction over VolumeUnit,    *)
(* the bass energy is a sum and a count, and a comparison of quotients is  *)
(* the comparison of the cross products. Spec leaves sound, clock and the  *)
(* slider alone; SpecSensitivity, SpecSound and SpecObservers let them and *)
(* the observers change during one session.                                *)
(***************************************************************************)
EXTENDS Integers, FiniteSets, Sequences, TLC

\* Number of AudioProcessor objects that exist in one run.
MaxProc == 2
\* Number of start() calls in one run of Spec (SpecApp allows MaxProc).
MaxStarts == 1
\* Number of streams getUserMedia grants in one run.
MaxStreams == 2

\* Number of frequency bins of the analyser (frequencyBinCount).
BufferLength == 2
\* Number of observers addCallback() registers besides the application's.
MaxCallbacks == 2
\* Milliseconds of Date.now() one run covers.
MaxElapsed == 460

Proc == 1..MaxProc

\* Rate of the audio context, in Hz.
SampleRate == 44100
\* Date.now() when the page is loaded.
ClockStart == 1000
\* Milliseconds that pass between two tasks.
Delays == {150, 151}
\* Magnitude bytes getByteFrequencyData delivers, and the spectra built of
\* them: one byte in the lowest bin, one in all the bins above it.
ByteSamples == {0, 100, 255}
Spectra ==
    {[i \in 1..BufferLength |-> IF i = 1 THEN low ELSE high] :
        low \in ByteSamples, high \in ByteSamples}
Silence == [i \in 1..BufferLength |-> 0]
\* Positions of the sensitivity slider (min 1, max 10), and arguments of
\* setSensitivity().
SliderValues == {1, 5, 7, 10}
SensitivityInputs == {-3, 0, 1, 7, 10, 11, 25}
\* Observers registered with addCallback(): the application's
\* handleAudioData ("app"); one that only reads the snapshot ("plain"); one
\* that throws ("thrower"); one that removes itself when invoked ("once");
\* one that registers a "plain" observer when invoked, unless one is
\* registered ("adder").
ClientObservers == {"plain", "thrower", "once", "adder"}

\* error.name values getUserMedia can reject with.
PermissionNames == {"NotAllowedError", "PermissionDeniedError"}
NotFoundNames == {"NotFoundError", "DevicesNotFoundError"}
NotReadableNames == {"NotReadableError", "TrackStartError"}
\* Mutant: the legacy name of the error is forgotten.
OverconstrainedNamesModernOnly == {"OverconstrainedError"}
OverconstrainedNames == {"OverconstrainedError", "ConstraintNotSatisfiedError"}
GumErrorNames ==
    {"NotAllowedError", "PermissionDeniedError", "NotFoundError",
     "DevicesNotFoundError", "NotReadableError", "TrackStartError",
     "OverconstrainedError", "ConstraintNotSatisfiedError", "TypeError",
     "AbortError"}

VARIABLES
    P,            \* P[p]: the fields of processor p and the platform objects it created
    app,          \* LiveMusicArtwork: audioProcessor, isRunning, notifications
    gumSupported, \* navigator.mediaDevices.getUserMedia exists
    granted,      \* streams getUserMedia has granted so far
    sound,        \* the magnitude bytes the analysers deliver now
    clock,        \* Date.now()
    step          \* what the last task did (observable effects of one task)

vars == <<P, app, gumSupported, granted, sound, clock, step>>

----------------------------------------------------------------------------
\* AudioProcessor constructor, plus the platform state tied to the object.
NewProcessor ==
    [ \* fields of the object
      isActive |-> FALSE, audioContext |-> FALSE, microphone |-> FALSE,
      analyser |-> FALSE, stream |-> "null", trackFailures |-> 0,
      isMuted |-> FALSE, retryTimeout |-> "null", callbacks |-> <<>>,
      sensitivity |-> 5, dataArray |-> <<>>, lastBeatTime |-> 0,
      \* position of its initialize() call
      initPc |-> "new",
      \* platform: context created by initialize(), close() calls on it
      ctxState |-> "none", closeCalls |-> 0,
      \* platform: live tracks of streams obtained by this object that
      \* this.stream no longer (or never) references: with listeners
      \* (unmuted, muted), without; live tracks with listeners of this.stream
      \* other than its first
      leakedL |-> 0, leakedLM |-> 0, leakedN |-> 0, spare |-> 0,
      \* platform: pending animation-frame callbacks, pending timers that
      \* retryTimeout no longer references, delay of the latest timer,
      \* restartAudio() calls awaiting getUserMedia
      raf |-> 0, orphanTimers |-> 0, retryDelay |-> 0, restarts |-> 0,
      \* history: stop() has been called on this object; restartAudio()
      \* calls since the session was last active or stopped
      stopped |-> FALSE, attempts |-> 0,
      \* history: Date.now() of the last frame published with
      \* beatDetected = true, -1 before the first; a frame whose bass energy
      \* was at or below its threshold was analysed since that frame
      beatAt |-> -1, quiet |-> FALSE ]

\* The snapshot object the visualization engine holds in audioData (none
\* before the first updateAudioData): its fields as they read now, where
\* rawFrequencyData is the dataArray of processor rawOf, or an array nothing
\* writes any more with content rawValue when rawOf is 0; and, as history,
\* the content of rawFrequencyData when the snapshot was assembled.
NoSnapshot ==
    [held |-> FALSE, volume |-> 0, beatDetected |-> FALSE, sensitivity |-> 0,
     rawOf |-> 0, rawValue |-> <<>>, rawAtFrame |-> <<>>]

StreamStates == {"null", "live", "liveMuted", "liveNoListeners", "ended"}
LiveStates == {"live", "liveMuted", "liveNoListeners"}
InitPcs == {"new", "gum", "basic", "resolved", "rejected"}

\* step: the task's name and processor, the processors whose analyzeAudio()
\* ran, the getUserMedia requests issued, the messages passed to
\* showAudioError, the message passed to showError, and the name of the
\* error the platform delivered to the task, the processors stop() was
\* called on, the processors whose pending timer clearTimeout cancelled, the
\* analyzeAudio() calls of the task in order (see AnalyzeAudio), the
\* argument of the call the task made (for a timer callback, the delay its
\* timer was set with), and the constraints of the getUserMedia request
\* issued: "preferred" (the detailed audio constraints) or "basic"
\* ({audio: true}).
NoStep == [op |-> "none", proc |-> 0, analysed |-> {}, gum |-> 0,
           audioErrors |-> {}, appError |-> "none", err |-> "none",
           stops |-> {}, cleared |-> {}, frames |-> <<>>, arg |-> 0,
           constraints |-> "none"]

Obs(op, p, analysed, gum, errs, appErr) ==
    [op |-> op, proc |-> p, analysed |-> analysed, gum |-> gum,
     audioErrors |-> errs, appError |-> appErr, err |-> "none",
     stops |-> {}, cleared |-> {}, frames |-> <<>>, arg |-> 0,
     constraints |-> "none"]

Init ==
    /\ P = [p \in Proc |-> NewProcessor]
    /\ app = [audioProcessor |-> 0, isRunning |-> FALSE,
              audioError |-> "none", audioWarning |-> FALSE,
              isPaused |-> FALSE, slider |-> 5, audioData |-> NoSnapshot,
              loops |-> 0]
    /\ gumSupported \in BOOLEAN
    /\ granted = 0
    /\ sound = Silence
    /\ clock = ClockStart
    /\ step = NoStep

----------------------------------------------------------------------------
\* initialize(): the message of the Error thrown by the catch block.
InitErrorMessage(name, message) ==
    IF name \in PermissionNames THEN "PermissionDenied"
    ELSE IF name \in NotFoundNames THEN "NoDevice"
    ELSE IF name \in NotReadableNames THEN "DeviceBusy"
    ELSE IF name \in OverconstrainedNames THEN "ConstraintsUnsupported"
    ELSE IF name = "TypeError" THEN "BrowserUnsupported"
    ELSE IF message # "" THEN message ELSE "UnknownError"

\* startAnalysis(): does it pass both guards and run analyzeAudio()?
Analyses(r) == r.isActive /\ r.analyser

\* Sum of the bytes of an array.
RECURSIVE SumOf(_)
SumOf(data) == IF data = <<>> THEN 0 ELSE Head(data) + SumOf(Tail(data))

\* calculateVolume(): min(100, (average / 255) * 100 * (sensitivity / 5)),
\* as the numerator of a fraction whose denominator is VolumeUnit(data).
VolumeUnit(data) == 51 * Len(data)

CalculateVolume(data, sensitivity) ==
    IF 4 * SumOf(data) * sensitivity < 100 * VolumeUnit(data)
    THEN 4 * SumOf(data) * sensitivity
    ELSE 100 * VolumeUnit(data)

\* Math.floor(frequency / binWidth), binWidth = (sampleRate / 2) / bufferLength.
BinOf(frequency) == (2 * frequency * BufferLength) \div SampleRate

\* analyzeFrequencyBins() for the bass range (20 Hz to 200 Hz): the sum and
\* the count of the bytes of bins startBin..endBin that the array has;
\* frequencyBins.bass is (sum / count) / 255, or 0 when count is 0.
BassBins(data) ==
    LET bins == {i \in BinOf(20)..BinOf(200) : i < Len(data)}
    IN [sum |-> SumOf([k \in 1..Cardinality(bins) |-> data[BinOf(20) + k]]),
        count |-> Cardinality(bins)]

\* Mutant: the bass energy is compared with the threshold less the neutral
\* threshold 0.3.
AboveThresholdRelative(bass, sensitivity) ==
    /\ bass.count > 0
    /\ bass.sum * 50 >= (3 * sensitivity - 15) * 255 * bass.count

\* detectBeat(): bassEnergy > 0.3 * (sensitivity / 5).
AboveThreshold(bass, sensitivity) ==
    /\ bass.count > 0
    /\ bass.sum * 50 > 3 * sensitivity * 255 * bass.count

\* Mutant: no minimum interval between two beats.
DetectBeatNoInterval(bass, sensitivity, now, lastBeatTime) ==
    AboveThreshold(bass, sensitivity)

\* detectBeat(): the new value of beatDetected.
DetectBeat(bass, sensitivity, now, lastBeatTime) ==
    AboveThreshold(bass, sensitivity) /\ now - lastBeatTime > 300

\* Mutant: setSensitivity() has no lower bound.
ClampSensitivityNoFloor(value) == IF value > 10 THEN 10 ELSE value

\* setSensitivity(): Math.max(1, Math.min(10, value)).
ClampSensitivity(value) ==
    IF value > 10 THEN 10 ELSE IF value < 1 THEN 1 ELSE value

\* removeCallback(): the list without the first occurrence of c.
RemoveCallbackFrom(cbs, c) ==
    IF \E i \in 1..Len(cbs) : cbs[i] = c
    THEN LET i == CHOOSE i \in 1..Len(cbs) :
                      cbs[i] = c /\ \A j \in 1..(i - 1) : cbs[j] # c
         IN SubSeq(cbs, 1, i - 1) \o SubSeq(cbs, i + 1, Len(cbs))
    ELSE cbs

\* callback(data) for observer c during a notification. n is the
\* notification so far: the callbacks list, the sensitivity field of the
\* snapshot object, the engine's audioData, the calls made (observer, the
\* sensitivity it is left with, whether it threw) and whether an exception
\* left notifyCallbacks; f is the frame: processor, assembled snapshot,
\* whether handleAudioData passes its guard, and the slider value.
Invoke(c, n, f) ==
    LET n1 ==
          IF c = "app" /\ f.consumes
          THEN [n EXCEPT !.sens = f.slider,
                         !.engine = [held |-> TRUE,
                                     volume |-> f.snapshot.volume,
                                     beatDetected |-> f.snapshot.beatDetected,
                                     sensitivity |-> f.slider,
                                     rawOf |-> f.proc,
                                     rawValue |-> <<>>,
                                     rawAtFrame |-> f.snapshot.raw]]
          ELSE IF c = "once"
          THEN [n EXCEPT !.cbs = RemoveCallbackFrom(@, "once")]
          ELSE IF c = "adder" /\ \A i \in 1..Len(n.cbs) : n.cbs[i] # "plain"
          THEN [n EXCEPT !.cbs = Append(@, "plain")]
          ELSE n
    IN [n1 EXCEPT !.calls = Append(@, [obs |-> c, sensitivity |-> n1.sens,
                                       threw |-> c = "thrower"])]

\* Mutant: notifyCallbacks calls the observer outside a try block.
NotifyOneNoCatch(c, n, f) ==
    [Invoke(c, n, f) EXCEPT !.propagated = (c = "thrower")]

\* notifyCallbacks, one element: try { callback(data) } catch { log }.
NotifyOne(c, n, f) == Invoke(c, n, f)

\* notifyCallbacks: Array.prototype.forEach visits the indices below the
\* length the list had at the start, skipping those the list no longer has.
RECURSIVE NotifyFrom(_, _, _, _)
NotifyFrom(k, len, n, f) ==
    IF k > len \/ n.propagated THEN n
    ELSE IF k > Len(n.cbs) THEN NotifyFrom(k + 1, len, n, f)
    ELSE NotifyFrom(k + 1, len, NotifyOne(n.cbs[k], n, f), f)

NotifyCallbacks(cbs, engine, f) ==
    NotifyFrom(1, Len(cbs),
               [cbs |-> cbs, sens |-> f.snapshot.sensitivity,
                engine |-> engine, calls |-> <<>>, propagated |-> FALSE], f)

\* analyzeAudio() of processor p with fields r, the application being a,
\* the analyser delivering snd at Date.now() = now: the fields and the
\* application afterwards, and the record of the frame: the snapshot as
\* assembled (volume, bass bins, beatDetected, sensitivity and the content
\* of rawFrequencyData), the callbacks registered at the start, the calls
\* made, and the fields the analysis read.
AnalyzeAudioAt(p, r, a, snd, now) ==
    LET bass == BassBins(snd)
        beat == DetectBeat(bass, r.sensitivity, now, r.lastBeatTime)
        snap == [volume |-> CalculateVolume(snd, r.sensitivity),
                 bass |-> bass,
                 beatDetected |-> beat,
                 sensitivity |-> IF r.sensitivity = 0 THEN 5 ELSE r.sensitivity,
                 raw |-> snd]
        f == [proc |-> p, snapshot |-> snap,
              consumes |-> a.isRunning /\ ~a.isPaused, slider |-> a.slider]
        n == NotifyCallbacks(r.callbacks, a.audioData, f)
    IN [r |-> [r EXCEPT !.dataArray = snd,
                        !.lastBeatTime = IF beat THEN now ELSE @,
                        !.beatAt = IF beat THEN now ELSE @,
                        !.quiet = IF beat THEN FALSE
                                  ELSE @ \/ ~AboveThreshold(bass, r.sensitivity),
                        !.callbacks = n.cbs],
        a |-> [a EXCEPT !.audioData = n.engine],
        frame |-> [proc |-> p, at |-> now, snapshot |-> snap,
                   sensitivity |-> r.sensitivity,
                   lastBeatTime |-> r.lastBeatTime, beatAt |-> r.beatAt,
                   quiet |-> r.quiet,
                   registered |-> r.callbacks,
                   consumes |-> f.consumes, slider |-> f.slider,
                   engine |-> a.audioData,
                   calls |-> n.calls, left |-> n.cbs,
                   propagated |-> n.propagated]]

AnalyzeAudio(p, r, a) == AnalyzeAudioAt(p, r, a, sound, clock)

\* startAnalysis() called on processor p: analyse and schedule one frame
\* callback; the fields, the application and the frames analysed.
StartAnalysis(p, r, a) ==
    IF Analyses(r)
    THEN LET x == AnalyzeAudio(p, r, a)
         IN [r |-> [x.r EXCEPT !.raf = IF x.frame.propagated THEN @ ELSE @ + 1],
             a |-> x.a, frames |-> <<x.frame>>]
    ELSE [r |-> r, a |-> a, frames |-> <<>>]

\* Mutant: the delay grows linearly.
RetryDelayLinear(n) ==
    IF 1000 * n < 10000 THEN 1000 * n ELSE 10000

\* handleTrackFailure: retry delay for the n-th failure.
RetryDelay(n) ==
    IF 1000 * (2 ^ (n - 1)) < 10000 THEN 1000 * (2 ^ (n - 1)) ELSE 10000

\* handleTrackFailure(reason) on the fields of one processor.
HandleTrackFailure(r) ==
    [r EXCEPT !.trackFailures = @ + 1,
              !.isActive = FALSE,
              !.orphanTimers = IF r.retryTimeout = "pending" THEN @ + 1 ELSE @,
              !.retryTimeout = "pending",
              !.retryDelay = RetryDelay(r.trackFailures + 1)]

\* Mutant: stop() does not clear isActive.
StopProcessorStaysActive(r) ==
    [r EXCEPT !.retryTimeout = "null",
              !.retryDelay = IF r.retryTimeout = "pending" THEN 0 ELSE @,
              !.stream = "null", !.spare = 0,
              !.microphone = FALSE,
              !.ctxState = IF r.audioContext /\ r.ctxState # "closed"
                           THEN "closed" ELSE @,
              !.closeCalls = IF r.audioContext /\ r.ctxState # "closed"
                             THEN @ + 1 ELSE @,
              !.analyser = FALSE,
              !.audioContext = FALSE,
              !.trackFailures = 0,
              !.isMuted = FALSE,
              !.stopped = TRUE,
              !.attempts = 0]

\* Mutant: stop() closes the context without checking its state and keeps
\* the reference to it.
StopProcessorKeepsContext(r) ==
    [r EXCEPT !.isActive = FALSE,
              !.retryTimeout = "null",
              !.retryDelay = IF r.retryTimeout = "pending" THEN 0 ELSE @,
              !.stream = "null", !.spare = 0,
              !.microphone = FALSE,
              !.ctxState = IF r.audioContext THEN "closed" ELSE @,
              !.closeCalls = IF r.audioContext THEN @ + 1 ELSE @,
              !.analyser = FALSE,
              !.trackFailures = 0,
              !.isMuted = FALSE,
              !.stopped = TRUE,
              !.attempts = 0]

\* Mutant: stop() does not cancel the retry timer.
StopProcessorKeepsTimer(r) ==
    [r EXCEPT !.isActive = FALSE,
              !.stream = "null", !.spare = 0,
              !.microphone = FALSE,
              !.ctxState = IF r.audioContext /\ r.ctxState # "closed"
                           THEN "closed" ELSE @,
              !.closeCalls = IF r.audioContext /\ r.ctxState # "closed"
                             THEN @ + 1 ELSE @,
              !.analyser = FALSE,
              !.audioContext = FALSE,
              !.trackFailures = 0,
              !.isMuted = FALSE,
              !.stopped = TRUE,
              !.attempts = 0]

\* AudioProcessor.stop() on the fields of one processor.
StopProcessor(r) ==
    [r EXCEPT !.isActive = FALSE,
              !.retryTimeout = "null",
              !.retryDelay = IF r.retryTimeout = "pending" THEN 0 ELSE @,
              !.stream = "null", !.spare = 0,
              !.microphone = FALSE,
              !.ctxState = IF r.audioContext /\ r.ctxState # "closed"
                           THEN "closed" ELSE @,
              !.closeCalls = IF r.audioContext /\ r.ctxState # "closed"
                             THEN @ + 1 ELSE @,
              !.analyser = FALSE,
              !.audioContext = FALSE,
              !.trackFailures = 0,
              !.isMuted = FALSE,
              !.stopped = TRUE,
              !.attempts = 0]

\* LiveMusicArtwork.stop(): the processors after it, and the app after it.
AppStopProcs(PP, a) ==
    IF a.audioProcessor # 0
    THEN [PP EXCEPT ![a.audioProcessor] = StopProcessor(@)]
    ELSE PP

AppStopApp(a) ==
    [a EXCEPT !.audioProcessor = 0, !.isRunning = FALSE, !.isPaused = FALSE]

\* The processors a LiveMusicArtwork.stop() calls stop() on.
StopsOf(a) == IF a.audioProcessor # 0 THEN {a.audioProcessor} ELSE {}

\* The processors whose pending timer was cancelled (line 371) between the
\* processor states PP and PP2.
ClearedBy(PP, PP2) ==
    {p \in Proc : PP[p].retryTimeout = "pending" /\ PP2[p].retryTimeout = "null"}

\* start() after `await initialize()` resolved: lines 197-214, or the
\* TypeError of `this.audioProcessor.addCallback` on null and the catch.
\* Lines 198-205 when this.audioProcessor is not null: a new engine (whose
\* constructor calls animate(), which schedules itself again on each run),
\* the application's observer registered, startAnalysis().
StartResolved(PP, a) ==
    StartAnalysis(a.audioProcessor,
                  [PP[a.audioProcessor] EXCEPT !.callbacks = Append(@, "app")],
                  [a EXCEPT !.audioData = NoSnapshot, !.loops = @ + 1])

StartResolvedProcs(PP, a) ==
    IF a.audioProcessor # 0
    THEN [PP EXCEPT ![a.audioProcessor] = StartResolved(PP, a).r]
    ELSE PP

StartResolvedApp(PP, a) ==
    IF a.audioProcessor # 0
    THEN [StartResolved(PP, a).a EXCEPT !.isRunning = TRUE]
    ELSE AppStopApp([a EXCEPT !.audioData = NoSnapshot, !.loops = @ + 1])

StartResolvedFrames(PP, a) ==
    IF a.audioProcessor # 0 THEN StartResolved(PP, a).frames ELSE <<>>

StartResolvedAnalysed(PP, a) ==
    IF a.audioProcessor # 0 /\ Analyses(PP[a.audioProcessor])
    THEN {a.audioProcessor} ELSE {}

StartResolvedError(a) ==
    IF a.audioProcessor # 0 THEN "none" ELSE "NullProcessor"

----------------------------------------------------------------------------
\* The processor the next `new AudioProcessor()` creates.
FreshProc == CHOOSE p \in Proc : /\ P[p].initPc = "new"
                                 /\ \A q \in Proc : P[q].initPc = "new" => p <= q

\* Number of start() calls so far: each creates one processor.
Created == Cardinality({p \in Proc : P[p].initPc # "new"})

\* start(): Start click, Space key, or liveMusicArtwork.start().
StartCall ==
    /\ \E p \in Proc : P[p].initPc = "new"
    /\ LET p == FreshProc
           a1 == [app EXCEPT !.audioProcessor = p]
       IN IF gumSupported
          THEN /\ P' = [P EXCEPT ![p] = [@ EXCEPT !.audioContext = TRUE,
                                                  !.ctxState = "running",
                                                  !.initPc = "gum"]]
               /\ app' = a1
               /\ step' = [Obs("start", p, {}, 1, {}, "none")
                              EXCEPT !.constraints = "preferred"]
          ELSE LET P1 == [P EXCEPT ![p].initPc = "rejected"]
                   msg == InitErrorMessage("Error", "GumNotSupported")
               IN /\ P' = AppStopProcs(P1, a1)
                  /\ app' = AppStopApp(a1)
                  /\ step' = [Obs("start", p, {}, 0, {}, msg)
                                 EXCEPT !.err = "unsupported",
                                        !.stops = StopsOf(a1),
                                        !.cleared = ClearedBy(P1, P')]
    /\ UNCHANGED <<gumSupported, granted, sound, clock>>

\* initialize() settles with resolve; start() continues.
InitResolved(x, p, op) ==
    LET P1 == [P EXCEPT ![p] = x.r]
    IN /\ P' = StartResolvedProcs(P1, x.a)
       /\ app' = StartResolvedApp(P1, x.a)
       /\ step' = [Obs(op, p, {p} \cup StartResolvedAnalysed(P1, x.a), 0, {},
                       StartResolvedError(x.a))
                      EXCEPT !.frames = x.frames \o StartResolvedFrames(P1, x.a)]

\* initialize() settles with reject; start() catches: showError, stop().
InitRejected(P1, p, op, msg, name) ==
    /\ P' = AppStopProcs(P1, app)
    /\ app' = AppStopApp(app)
    /\ step' = [Obs(op, p, {}, 0, {}, msg)
                   EXCEPT !.err = name, !.stops = StopsOf(app),
                          !.cleared = ClearedBy(P1, P')]

\* initialize(): getUserMedia(constraints) resolves, lines 101-160.
InitGumResolveWith(p, tracks) ==
    /\ P[p].initPc = "gum"
    /\ granted < MaxStreams
    /\ granted' = granted + 1
    /\ IF P[p].audioContext
       THEN InitResolved(
                StartAnalysis(p,
                    [P[p] EXCEPT !.microphone = TRUE, !.analyser = TRUE,
                                 !.dataArray = Silence,
                                 !.stream = "live", !.spare = tracks - 1,
                                 !.isActive = TRUE,
                                 !.initPc = "resolved"],
                    app),
                p, "initGumResolve")
       ELSE \* this.audioContext is null at line 134: TypeError after the
            \* listeners were added to the stream's track
            InitRejected(
                [P EXCEPT ![p] = [@ EXCEPT !.leakedL = @ + tracks,
                                           !.initPc = "rejected"]],
                p, "initGumResolve", InitErrorMessage("TypeError", "null"),
                "none")
    /\ UNCHANGED <<gumSupported, sound, clock>>

\* getUserMedia resolves with a stream of one audio track.
InitGumResolve(p) == InitGumResolveWith(p, 1)

\* initialize(): getUserMedia(constraints) rejects, lines 161-210.
InitGumReject(p, name) ==
    /\ P[p].initPc = "gum"
    /\ IF name \in OverconstrainedNames
       THEN /\ P' = [P EXCEPT ![p].initPc = "basic"]
            /\ app' = app
            /\ step' = [Obs("initGumReject", p, {}, 1, {}, "none")
                           EXCEPT !.err = name, !.constraints = "basic"]
       ELSE InitRejected([P EXCEPT ![p].initPc = "rejected"], p,
                         "initGumReject", InitErrorMessage(name, "other"),
                         name)
    /\ UNCHANGED <<gumSupported, granted, sound, clock>>

\* initialize(): getUserMedia({audio: true}) resolves, lines 179-198.
InitBasicResolve(p) ==
    /\ P[p].initPc = "basic"
    /\ granted < MaxStreams
    /\ granted' = granted + 1
    /\ IF P[p].audioContext
       THEN InitResolved(
                StartAnalysis(p,
                    [P[p] EXCEPT !.microphone = TRUE, !.analyser = TRUE,
                                 !.dataArray = Silence,
                                 !.stream = "liveNoListeners",
                                 !.isActive = TRUE, !.initPc = "resolved"],
                    app),
                p, "initBasicResolve")
       ELSE \* TypeError at line 181, caught at line 199
            InitRejected(
                [P EXCEPT ![p] = [@ EXCEPT !.leakedN = @ + 1,
                                           !.initPc = "rejected"]],
                p, "initBasicResolve",
                InitErrorMessage("OverconstrainedError", "other"), "none")
    /\ UNCHANGED <<gumSupported, sound, clock>>

\* initialize(): getUserMedia({audio: true}) rejects, lines 199-209.
InitBasicReject(p) ==
    /\ P[p].initPc = "basic"
    /\ InitRejected([P EXCEPT ![p].initPc = "rejected"], p, "initBasicReject",
                    InitErrorMessage("OverconstrainedError", "other"),
                    "rejected")
    /\ UNCHANGED <<gumSupported, granted, sound, clock>>

\* The animation-frame callback of startAnalysis(), lines 213-226.
Frame(p) ==
    /\ P[p].raf > 0
    /\ IF Analyses(P[p])
       THEN LET x == AnalyzeAudio(p, P[p], app)
            IN /\ P' = [P EXCEPT ![p] =
                           [x.r EXCEPT !.raf = IF x.frame.propagated
                                               THEN @ - 1 ELSE @]]
               /\ app' = x.a
               /\ step' = [Obs("frame", p, {p}, 0, {}, "none")
                              EXCEPT !.frames = <<x.frame>>]
       ELSE /\ P' = [P EXCEPT ![p].raf = @ - 1]
            /\ app' = app
            /\ step' = Obs("frame", p, {}, 0, {}, "none")
    /\ UNCHANGED <<gumSupported, granted, sound, clock>>

\* showAudioError(message) of the failure handler, for one reason.
LostMessage(reason) ==
    IF reason = "ended" THEN "LostTrackEnded" ELSE "LostRestartFailed"

\* Mutant: handleTrackFailure does not notify the UI.
FailureTaskSilent(p, r, op, reason) ==
    /\ P' = [P EXCEPT ![p] = HandleTrackFailure(r)]
    /\ app' = app
    /\ step' = Obs(op, p, {}, 0, {}, "none")

\* A task that ends in handleTrackFailure(reason) on processor p, whose
\* fields before the call are r.
FailureTask(p, r, op, reason) ==
    /\ P' = [P EXCEPT ![p] = HandleTrackFailure(r)]
    /\ app' = [app EXCEPT !.audioError = LostMessage(reason)]
    /\ step' = Obs(op, p, {}, 0, {LostMessage(reason)}, "none")

\* The 'ended' event of the track of a live stream obtained by p: of
\* this.stream ("session"), or of a stream this.stream does not reference.
TrackEnded(p, which) ==
    /\ \/ /\ which = "session"
          /\ P[p].stream \in {"live", "liveMuted"}
          /\ FailureTask(p, [P[p] EXCEPT !.stream = "ended"], "ended", "ended")
       \/ /\ which = "session"
          /\ P[p].stream = "liveNoListeners"
          /\ P' = [P EXCEPT ![p].stream = "ended"]
          /\ app' = app
          /\ step' = Obs("endedNoListener", p, {}, 0, {}, "none")
       \/ /\ which = "leakedL"
          /\ P[p].leakedL > 0
          /\ FailureTask(p, [P[p] EXCEPT !.leakedL = @ - 1], "ended", "ended")
       \/ /\ which = "leakedLM"
          /\ P[p].leakedLM > 0
          /\ FailureTask(p, [P[p] EXCEPT !.leakedLM = @ - 1], "ended", "ended")
       \/ /\ which = "leakedN"
          /\ P[p].leakedN > 0
          /\ P' = [P EXCEPT ![p].leakedN = @ - 1]
          /\ app' = app
          /\ step' = Obs("endedNoListener", p, {}, 0, {}, "none")
    /\ UNCHANGED <<gumSupported, granted, sound, clock>>

\* The 'mute' event of a live track with listeners: handleTrackMute().
TrackMute(p, which) ==
    /\ \/ /\ which = "session"
          /\ P[p].stream = "live"
          /\ P' = [P EXCEPT ![p] = [@ EXCEPT !.stream = "liveMuted",
                                             !.isMuted = TRUE]]
       \/ /\ which = "leakedL"
          /\ P[p].leakedL > 0
          /\ P' = [P EXCEPT ![p] = [@ EXCEPT !.leakedL = @ - 1,
                                             !.leakedLM = @ + 1,
                                             !.isMuted = TRUE]]
    /\ app' = [app EXCEPT !.audioWarning = TRUE]
    /\ step' = Obs("mute", p, {}, 0, {}, "none")
    /\ UNCHANGED <<gumSupported, granted, sound, clock>>

\* The 'unmute' event of a muted live track: handleTrackUnmute().
TrackUnmute(p, which) ==
    /\ \/ /\ which = "session"
          /\ P[p].stream = "liveMuted"
          /\ P' = [P EXCEPT ![p] = [@ EXCEPT !.stream = "live",
                                             !.isMuted = FALSE]]
       \/ /\ which = "leakedLM"
          /\ P[p].leakedLM > 0
          /\ P' = [P EXCEPT ![p] = [@ EXCEPT !.leakedLM = @ - 1,
                                             !.leakedL = @ + 1,
                                             !.isMuted = FALSE]]
    /\ app' = [app EXCEPT !.audioWarning = FALSE]
    /\ step' = Obs("unmute", p, {}, 0, {}, "none")
    /\ UNCHANGED <<gumSupported, granted, sound, clock>>

\* restartAudio() up to `await getUserMedia`, lines 455-485.
RestartBegin(r) ==
    [r EXCEPT !.microphone = FALSE, !.stream = "null", !.spare = 0,
              !.restarts = @ + 1, !.attempts = @ + 1]

\* Mutant: the retry limit is off by one.
MayRetryOffByOne(r) == r.trackFailures < 3

\* The retry limit of the timer callback, line 420.
MayRetry(r) == r.trackFailures <= 3

\* The delay the timer that fires was set with (0 for a timer that
\* retryTimeout no longer references: its delay is not kept).
FiredDelay(p, which) == IF which = "current" THEN P[p].retryDelay ELSE 0

\* The callback of a timer set by handleTrackFailure, lines 419-434:
\* the timer retryTimeout references ("current") or an earlier one.
TimerFire(p, which) ==
    /\ \/ which = "current" /\ P[p].retryTimeout = "pending"
       \/ which = "orphan" /\ P[p].orphanTimers > 0
    /\ LET r == IF which = "current"
                THEN [P[p] EXCEPT !.retryTimeout = "stale", !.retryDelay = 0]
                ELSE [P[p] EXCEPT !.orphanTimers = @ - 1]
       IN IF MayRetry(r)
          THEN /\ P' = [P EXCEPT ![p] = RestartBegin(r)]
               /\ app' = app
               /\ step' = [Obs("timerRestart", p, {}, 1, {}, "none")
                              EXCEPT !.arg = FiredDelay(p, which),
                                     !.constraints = "preferred"]
          ELSE /\ P' = [P EXCEPT ![p] = r]
               /\ app' = [app EXCEPT !.audioError = "ManualRestart"]
               /\ step' = [Obs("timerGiveUp", p, {}, 0, {"ManualRestart"},
                               "none")
                              EXCEPT !.arg = FiredDelay(p, which)]
    /\ UNCHANGED <<gumSupported, granted, sound, clock>>

\* A snapshot object when processor p replaces its dataArray, whose
\* content is data, by a new array.
Detached(snapshot, p, data) ==
    IF snapshot.held /\ snapshot.rawOf = p
    THEN [snapshot EXCEPT !.rawOf = 0, !.rawValue = data]
    ELSE snapshot

\* The stream this.stream referenced, when restartAudio() overwrites it.
Overwritten(r) ==
    [r EXCEPT !.leakedL = (IF r.stream = "live" THEN @ + 1 ELSE @) + r.spare,
              !.spare = 0,
              !.leakedLM = IF r.stream = "liveMuted" THEN @ + 1 ELSE @,
              !.leakedN = IF r.stream = "liveNoListeners" THEN @ + 1 ELSE @]

\* restartAudio(): getUserMedia resolves, lines 486-529; on the TypeError
\* of line 489 the catch of the timer callback runs handleTrackFailure.
RestartGumResolveWith(p, tracks) ==
    /\ P[p].restarts > 0
    /\ granted < MaxStreams
    /\ granted' = granted + 1
    /\ LET r == [P[p] EXCEPT !.restarts = @ - 1]
       IN IF r.audioContext
          THEN /\ P' = [P EXCEPT ![p] =
                          [Overwritten(r) EXCEPT !.microphone = TRUE,
                                                 !.analyser = TRUE,
                                                 !.dataArray = Silence,
                                                 !.stream = "live",
                                                 !.spare = tracks - 1,
                                                 !.isActive = TRUE,
                                                 !.trackFailures = 0,
                                                 !.attempts = 0]]
               /\ app' = [app EXCEPT !.audioError = "none",
                                      !.audioData = Detached(@, p, r.dataArray)]
               /\ step' = Obs("restartResolve", p, {}, 0, {}, "none")
          ELSE FailureTask(p, [r EXCEPT !.leakedN = @ + tracks],
                           "restartResolveThrow", "restart")
    /\ UNCHANGED <<gumSupported, sound, clock>>

\* getUserMedia resolves with a stream of one audio track.
RestartGumResolve(p) == RestartGumResolveWith(p, 1)

\* The 'ended' event of a track of this.stream other than its first: the
\* listener added to each track of the stream runs handleTrackFailure.
SpareTrackEnded(p) ==
    /\ P[p].spare > 0
    /\ FailureTask(p, [P[p] EXCEPT !.spare = @ - 1], "ended", "ended")
    /\ UNCHANGED <<gumSupported, granted, sound, clock>>

\* restartAudio(): getUserMedia rejects; the catch of the timer callback.
RestartGumReject(p) ==
    /\ P[p].restarts > 0
    /\ FailureTask(p, [P[p] EXCEPT !.restarts = @ - 1], "restartReject",
                   "restart")
    /\ UNCHANGED <<gumSupported, granted, sound, clock>>

\* audioProcessor.stop() called on the processor the application holds.
ProcStop(p) ==
    /\ app.audioProcessor = p
    /\ P' = [P EXCEPT ![p] = StopProcessor(@)]
    /\ step' = [Obs(IF step.op \in {"stop", "stopAgain"} /\ step.proc = p
                    THEN "stopAgain" ELSE "stop", p, {}, 0, {}, "none")
                   EXCEPT !.stops = {p}, !.cleared = ClearedBy(P, P')]
    /\ UNCHANGED <<app, gumSupported, granted, sound, clock>>

\* LiveMusicArtwork.stop(): Stop click, Space or Escape key, console.
AppStop ==
    /\ P' = AppStopProcs(P, app)
    /\ app' = AppStopApp(app)
    /\ step' = [Obs("appStop", app.audioProcessor, {}, 0, {}, "none")
                   EXCEPT !.stops = StopsOf(app), !.cleared = ClearedBy(P, P')]
    /\ UNCHANGED <<gumSupported, granted, sound, clock>>

\* The sound at the microphone changes: the analysers deliver spectrum d.
Sound(d) ==
    /\ d # sound
    /\ sound' = d
    /\ step' = Obs("sound", 0, {}, 0, {}, "none")
    /\ UNCHANGED <<P, app, gumSupported, granted, clock>>

\* Time passes between two tasks.
Tick(d) ==
    /\ clock + d <= ClockStart + MaxElapsed
    /\ clock' = clock + d
    /\ step' = Obs("tick", 0, {}, 0, {}, "none")
    /\ UNCHANGED <<P, app, gumSupported, granted, sound>>

\* 'input' event of the sensitivity slider (moved by the user, or by
\* LiveMusicArtwork.setSensitivity), app.js lines 92-98.
SliderInput(v) ==
    /\ v # app.slider
    /\ app' = [app EXCEPT !.slider = v]
    /\ P' = IF app.audioProcessor # 0
            THEN [P EXCEPT ![app.audioProcessor].sensitivity =
                               ClampSensitivity(v)]
            ELSE P
    /\ step' = [Obs("sliderInput", app.audioProcessor, {}, 0, {}, "none")
                   EXCEPT !.arg = v]
    /\ UNCHANGED <<gumSupported, granted, sound, clock>>

\* audioProcessor.setSensitivity(v) called on the processor the application
\* holds.
SetSensitivity(p, v) ==
    /\ app.audioProcessor = p
    /\ P' = [P EXCEPT ![p].sensitivity = ClampSensitivity(v)]
    /\ step' = [Obs("setSensitivity", p, {}, 0, {}, "none") EXCEPT !.arg = v]
    /\ UNCHANGED <<app, gumSupported, granted, sound, clock>>

\* audioProcessor.addCallback(c) called by a client of the processor the
\* application holds.
AddCallback(p, c) ==
    /\ app.audioProcessor = p
    /\ Cardinality({i \in 1..Len(P[p].callbacks) : P[p].callbacks[i] # "app"})
           < MaxCallbacks
    /\ P' = [P EXCEPT ![p].callbacks = Append(@, c)]
    /\ step' = Obs("addCallback", p, {}, 0, {}, "none")
    /\ UNCHANGED <<app, gumSupported, granted, sound, clock>>

\* audioProcessor.removeCallback(c) called by a client.
RemoveCallback(p, c) ==
    /\ app.audioProcessor = p
    /\ \E i \in 1..Len(P[p].callbacks) : P[p].callbacks[i] = c
    /\ P' = [P EXCEPT ![p].callbacks = RemoveCallbackFrom(@, c)]
    /\ step' = Obs("removeCallback", p, {}, 0, {}, "none")
    /\ UNCHANGED <<app, gumSupported, granted, sound, clock>>

\* 'visibilitychange' with the document hidden: pause().
Pause ==
    /\ app.isRunning /\ ~app.isPaused
    /\ app' = [app EXCEPT !.isPaused = TRUE]
    /\ step' = Obs("pause", 0, {}, 0, {}, "none")
    /\ UNCHANGED <<P, gumSupported, granted, sound, clock>>

\* 'visibilitychange' with the document visible: resume().
Resume ==
    /\ app.isRunning /\ app.isPaused
    /\ app' = [app EXCEPT !.isPaused = FALSE]
    /\ step' = Obs("resume", 0, {}, 0, {}, "none")
    /\ UNCHANGED <<P, gumSupported, granted, sound, clock>>

\* start(), among the first MaxStarts calls.
AppStart == Created < MaxStarts /\ StartCall

\* The first start() of a run.
AppStartFirst == Created = 0 /\ StartCall

\* start() invoked again, beyond the first MaxStarts calls.
AppStartAgain == Created >= MaxStarts /\ StartCall

\* Every task but start().
Tasks ==
    \/ AppStop
    \/ \E p \in Proc : InitGumResolve(p)
    \/ \E p \in Proc, name \in GumErrorNames : InitGumReject(p, name)
    \/ \E p \in Proc : InitBasicResolve(p)
    \/ \E p \in Proc : InitBasicReject(p)
    \/ \E p \in Proc : Frame(p)
    \/ \E p \in Proc, w \in {"session", "leakedL", "leakedLM", "leakedN"} :
           TrackEnded(p, w)
    \/ \E p \in Proc, w \in {"session", "leakedL"} : TrackMute(p, w)
    \/ \E p \in Proc, w \in {"session", "leakedLM"} : TrackUnmute(p, w)
    \/ \E p \in Proc, w \in {"current", "orphan"} : TimerFire(p, w)
    \/ \E p \in Proc : RestartGumResolve(p)
    \/ \E p \in Proc : RestartGumReject(p)
    \/ \E p \in Proc : ProcStop(p)

Next == AppStart \/ Tasks

Spec == Init /\ [][Next]_vars

\* The application with start() invoked any number of times.
NextApp == Next \/ AppStartAgain

SpecApp == Init /\ [][NextApp]_vars

\* One session with the slider moved and setSensitivity() called.
NextSensitivity ==
    \/ AppStartFirst
    \/ AppStop
    \/ InitGumResolve(1)
    \/ Frame(1)
    \/ \E v \in SliderValues : SliderInput(v)
    \/ \E v \in SensitivityInputs : SetSensitivity(1, v)

SpecSensitivity ==
    Init /\ [][NextSensitivity]_vars

\* One session with the sound, the clock and the slider changing.
NextSound ==
    \/ AppStartFirst
    \/ InitGumResolve(1)
    \/ Frame(1)
    \/ \E d \in Spectra : Sound(d)
    \/ \E d \in Delays : Tick(d)
    \/ \E v \in SliderValues : SliderInput(v)

SpecSound ==
    Init /\ [][NextSound]_vars

\* One session with clients registering and removing observers, the page
\* being hidden and shown, and the sound and the slider changing.
NextObservers ==
    \/ AppStartFirst
    \/ AppStop
    \/ InitGumResolve(1)
    \/ Frame(1)
    \/ \E c \in ClientObservers : AddCallback(1, c)
    \/ \E c \in ClientObservers : RemoveCallback(1, c)
    \/ Pause
    \/ Resume
    \/ \E d \in {Silence, [i \in 1..BufferLength |-> 255]} : Sound(d)
    \/ \E v \in {5, 7} : SliderInput(v)

SpecObservers ==
    Init /\ [][NextObservers]_vars

\* The fields stay in their types; the counters stay bounded.
TypeOK ==
    /\ \A p \in Proc :
        /\ P[p].stream \in StreamStates
        /\ P[p].initPc \in InitPcs
        /\ P[p].retryTimeout \in {"null", "pending", "stale"}
        /\ P[p].trackFailures \in 0..8
        /\ P[p].raf \in 0..8
        /\ P[p].restarts \in 0..8
        /\ P[p].orphanTimers \in 0..8
        /\ P[p].leakedL + P[p].leakedLM + P[p].leakedN \in 0..40
        /\ P[p].sensitivity \in Int
        /\ P[p].dataArray \in Spectra \cup {<<>>}
        /\ P[p].lastBeatTime \in {0} \cup (ClockStart..(ClockStart + MaxElapsed))
        /\ \A i \in 1..Len(P[p].callbacks) :
               P[p].callbacks[i] \in ClientObservers \cup {"app"}
    /\ sound \in Spectra
    /\ clock \in ClockStart..(ClockStart + MaxElapsed)
    /\ app.audioProcessor \in 0..MaxProc

----------------------------------------------------------------------------
\* Derived views of the state.

\* Streams with un-stopped, un-ended tracks obtained by processor p.
LiveStreamsOf(p) ==
    (IF P[p].stream \in LiveStates THEN 1 ELSE 0)
        + P[p].leakedL + P[p].leakedLM + P[p].leakedN

\* Pending backoff timers of processor p.
PendingTimers(p) ==
    (IF P[p].retryTimeout = "pending" THEN 1 ELSE 0) + P[p].orphanTimers

\* An outage is in progress: a backoff timer or a re-acquisition is pending.
Recovering(p) ==
    /\ P[p].trackFailures >= 1
    /\ PendingTimers(p) > 0 \/ P[p].restarts > 0

\* The state stop() leaves the fields in.
Released(r) ==
    /\ ~r.isActive /\ r.stream = "null" /\ ~r.microphone /\ ~r.analyser
    /\ ~r.audioContext /\ r.retryTimeout = "null" /\ r.trackFailures = 0
    /\ ~r.isMuted

----------------------------------------------------------------------------
\* C1: stop() is terminal: once stop() has been called on a processor, it
\* keeps trackFailures at 0, has no backoff timer pending, starts no
\* restartAudio() and reports no error to the UI.
C1_StopIsTerminal ==
    \A p \in Proc :
        P[p].stopped =>
            /\ P[p].trackFailures = 0
            /\ PendingTimers(p) = 0
            /\ (step.proc = p =>
                    step.op # "timerRestart" /\ step.audioErrors = {})

\* C2: at most one capture session exists: at most one processor holds a
\* stream with un-stopped tracks, at most one holds a connected source node
\* and at most one runs an analysis loop.
C2_OneSession ==
    /\ Cardinality({p \in Proc : P[p].stream \in LiveStates}) <= 1
    /\ Cardinality({p \in Proc : P[p].microphone}) <= 1
    /\ Cardinality({p \in Proc : P[p].isActive /\ P[p].raf > 0}) <= 1

\* C4: when restartAudio() has resolved, the analysis loop of the processor
\* is running: a frame callback is pending while it is active.
C4_LoopResumes ==
    \A p \in Proc :
        (step.op = "restartResolve" /\ step.proc = p) => P[p].raf > 0

\* C5: after stop() the processor is inactive, analyzeAudio() does not run on
\* it, and every frame callback still pending returns without scheduling
\* another one (the number of pending callbacks never grows and a frame
\* task lowers it).
C5_StopHaltsLoop ==
    /\ [](\A p \in Proc :
            P[p].stopped => ~P[p].isActive /\ p \notin step.analysed)
    /\ [][\A p \in Proc :
            P[p].stopped =>
                /\ P'[p].raf <= P[p].raf
                /\ (step'.op = "frame" /\ step'.proc = p
                        => P'[p].raf = P[p].raf - 1)]_vars

\* C5 witness: a frame callback that was pending ran after stop().
C5_Witness ==
    \E p \in Proc : P[p].stopped /\ step.op = "frame" /\ step.proc = p

\* C6: stop() is idempotent: every stop() leaves the fields released, a
\* second stop() in a row changes nothing, and close() is invoked at most
\* once on the context.
C6_StopIdempotent ==
    /\ [](\A p \in Proc :
            /\ (step.op \in {"stop", "stopAgain", "appStop"} /\ step.proc = p
                    => Released(P[p]))
            /\ P[p].closeCalls <= 1)
    /\ [][\A p \in Proc :
            (/\ step.op \in {"stop", "stopAgain"} /\ step.proc = p
             /\ step'.op \in {"stopAgain", "appStop"} /\ step'.proc = p)
                => P'[p] = P[p]]_vars

\* C6 witness: stop() was called a second time in a row on a processor
\* whose context the first call closed.
C6_Witness ==
    \E p \in Proc :
        step.op = "stopAgain" /\ step.proc = p /\ P[p].closeCalls = 1

\* C8: a track 'ended' event in an active session moves the processor to
\* Recovering(1): inactive, trackFailures 1, backoff timer scheduled.
C8_EndedStartsRecovery ==
    [][\A p \in Proc :
        (P[p].isActive /\ P[p].stream \in LiveStates /\ P'[p].stream = "ended")
            => /\ ~P'[p].isActive
               /\ P'[p].trackFailures = 1
               /\ P'[p].retryTimeout = "pending"]_vars

\* C3 as stated: after three consecutive track-failure events the processor
\* is terminal: no timer is pending and no re-acquisition is in flight.
C3_TerminalAfterThree ==
    \A p \in Proc :
        P[p].trackFailures >= 3 => PendingTimers(p) = 0 /\ P[p].restarts = 0

\* C3 amended: recovery is bounded. restartAudio() runs at most 3 times per
\* outage; after four consecutive track-failure events (the 'ended' event
\* and three failed re-acquisitions) no re-acquisition is in flight or is
\* started; the terminal error is reported only then and leaves no timer
\* pending; and an outage in progress leads to the terminal error unless a
\* re-acquisition succeeds or stop() is called (trackFailures back to 0).
C3_BoundedRecovery ==
    /\ [](\A p \in Proc :
            /\ P[p].attempts <= 3
            /\ (P[p].trackFailures >= 4 =>
                    /\ P[p].restarts = 0
                    /\ ~(step.op = "timerRestart" /\ step.proc = p))
            /\ (step.op = "timerGiveUp" /\ step.proc = p =>
                    /\ P[p].trackFailures >= 4
                    /\ P[p].attempts = 3
                    /\ PendingTimers(p) = 0))
    /\ \A p \in Proc :
            Recovering(p) ~>
                \/ step.op = "timerGiveUp" /\ step.proc = p
                \/ P[p].trackFailures = 0

\* C3 witness: the terminal error has been reported after three attempts.
C3_Witness ==
    \E p \in Proc :
        /\ step.op = "timerGiveUp" /\ step.proc = p
        /\ P[p].attempts = 3 /\ ~P[p].stopped

\* Timers fire and getUserMedia requests settle.
Fairness ==
    /\ \A p \in Proc : WF_vars(\E w \in {"current", "orphan"} : TimerFire(p, w))
    /\ \A p \in Proc : WF_vars(RestartGumResolve(p) \/ RestartGumReject(p))

\* One session of the application, with the platform's scheduling.
SpecFair == Init /\ [][AppStartFirst \/ Tasks]_vars /\ Fairness

ExpectedMessage(err) ==
    CASE err \in {"NotAllowedError", "PermissionDeniedError"} -> "PermissionDenied"
      [] err \in {"NotFoundError", "DevicesNotFoundError"} -> "NoDevice"
      [] err \in {"NotReadableError", "TrackStartError"} -> "DeviceBusy"
      [] err = "rejected" -> "ConstraintsUnsupported"
      [] err = "unsupported" -> "GumNotSupported"
      [] OTHER -> "other"

\* C9: a failed initialize() rejects with the message of the platform
\* error's category (TypeError, for which the claim names none, excepted),
\* and no automatic retry follows: the processor stays inactive, publishes no
\* snapshot, keeps trackFailures at 0 and has no backoff timer.
C9_InitFailure ==
    \A p \in Proc :
        P[p].initPc = "rejected" =>
            /\ ~P[p].isActive /\ p \notin step.analysed
            /\ P[p].trackFailures = 0
            /\ PendingTimers(p) = 0
            /\ ((/\ step.proc = p
                 /\ step.op \in {"start", "initGumReject", "initBasicReject"}
                 /\ step.err # "TypeError")
                    => step.appError = ExpectedMessage(step.err))

\* C10 as stated: an error is passed to showAudioError only when the retries
\* are exhausted, and none is displayed while an outage is being retried.
C10_OnlyAfterExhausted ==
    \A p \in Proc :
        /\ (step.proc = p /\ step.audioErrors # {} => P[p].trackFailures > 3)
        /\ (Recovering(p) /\ P[p].trackFailures <= 3 => app.audioError = "none")

\* C10 amended: every track-failure event is reported at once with a
\* 'connection lost' message, which is then displayed; the 'manual restart'
\* message is reported only by a timer callback that finds the retries
\* exhausted (trackFailures > 3); when restartAudio() resolves nothing is
\* reported and the displayed error is cleared.
C10_ReportedAtOnce ==
    \A p \in Proc :
        /\ (step.proc = p /\ "ManualRestart" \in step.audioErrors =>
                step.op = "timerGiveUp" /\ P[p].trackFailures > 3)
        /\ ((/\ step.proc = p
             /\ step.op \in {"ended", "restartReject", "restartResolveThrow"})
                => /\ step.audioErrors \in {{"LostTrackEnded"},
                                            {"LostRestartFailed"}}
                   /\ app.audioError \in step.audioErrors)
        /\ (step.proc = p /\ step.op = "restartResolve" =>
                step.audioErrors = {} /\ app.audioError = "none")

\* C10 witness: a failed re-acquisition has been reported while the retries
\* were not exhausted.
C10_Witness ==
    \E p \in Proc :
        /\ step.op = "restartReject" /\ step.proc = p
        /\ P[p].trackFailures = 2
        /\ app.audioError = "LostRestartFailed"

\* C11: when recovery ends in the terminal failed state (the timer callback
\* gives up), the processor holds what stop() leaves: no stream with
\* un-stopped tracks, no connected source node, no analyser, and its audio
\* context is closed.
C11_ReleasedAtFailed ==
    \A p \in Proc :
        (step.op = "timerGiveUp" /\ step.proc = p /\ ~P[p].stopped) =>
            /\ LiveStreamsOf(p) = 0
            /\ ~P[p].microphone
            /\ ~P[p].analyser
            /\ ~P[p].audioContext /\ P[p].ctxState = "closed"

\* C20: a stop() call on a processor whose backoff timer is pending cancels
\* the timer: retryTimeout is null and no timer of the processor is pending
\* afterwards, and a timer callback runs only for a pending timer, so the
\* cancelled one never runs and starts no restartAudio().
C20_StopCancelsTimer ==
    /\ [](\A p \in step.cleared :
            P[p].retryTimeout = "null" /\ PendingTimers(p) = 0)
    /\ [][\A p \in Proc :
            /\ (p \in step'.stops /\ P[p].retryTimeout = "pending")
                    => /\ p \in step'.cleared
                       /\ P'[p].retryTimeout = "null"
                       /\ P'[p].orphanTimers = 0
                       /\ P'[p].restarts = P[p].restarts
            /\ (PendingTimers(p) = 0)
                    => ~(/\ step'.op \in {"timerRestart", "timerGiveUp"}
                         /\ step'.proc = p)]_vars

\* C20 witness: stop() was called while the backoff timer was pending.
C20_Witness ==
    \E p \in step.cleared : step.op \in {"stop", "appStop"} /\ P[p].stopped

----------------------------------------------------------------------------
\* Claims about the analysis frames.

\* C12: on every analysis frame each observer registered when the frame
\* started is invoked exactly once, in registration order: the observers
\* called are the registered ones, one call each, in the same order (the
\* only observer that removes one removes itself, during its own turn).
C12_EachObserverOnce ==
    \A i \in 1..Len(step.frames) :
        LET f == step.frames[i]
        IN /\ Len(f.calls) = Len(f.registered)
           /\ \A k \in 1..Len(f.calls) : f.calls[k].obs = f.registered[k]

\* The notification of a frame if no exception of an observer had any
\* effect: every callback(data) returns to the loop.
RECURSIVE IsolatedFrom(_, _, _, _)
IsolatedFrom(k, len, n, f) ==
    IF k > len THEN n
    ELSE IF k > Len(n.cbs) THEN IsolatedFrom(k + 1, len, n, f)
    ELSE IsolatedFrom(k + 1, len, Invoke(n.cbs[k], n, f), f)

Isolated(f) ==
    IsolatedFrom(1, Len(f.registered),
                 [cbs |-> f.registered, sens |-> f.snapshot.sensitivity,
                  engine |-> f.engine, calls |-> <<>>, propagated |-> FALSE],
                 f)

\* The observers of a frame leave the callbacks list alone.
NoListChange(f) ==
    \A k \in 1..Len(f.registered) : f.registered[k] \notin {"once", "adder"}

SensitivitySet ==
    IF step.op = "setSensitivity" \/ (step.op = "sliderInput" /\ step.proc # 0)
    THEN {step.proc} ELSE {}

\* C14: the sensitivity of a processor is 5 before any setSensitivity()
\* call, changes only by such a call, is in 1..10 at all times, and after
\* setSensitivity(v) is v when 1 <= v <= 10, 1 when v < 1, 10 when v > 10.
C14_SensitivityClamped ==
    /\ \A p \in Proc : P[p].sensitivity = 5
    /\ [](\A p \in Proc :
            /\ P[p].sensitivity \in 1..10
            /\ (p \in SensitivitySet =>
                    P[p].sensitivity = IF step.arg < 1 THEN 1
                                       ELSE IF step.arg > 10 THEN 10
                                       ELSE step.arg))
    /\ [][\A p \in Proc :
            P'[p].sensitivity # P[p].sensitivity => p \in SensitivitySet']_vars

\* C14 witness: setSensitivity() was called with a value below 1 on a
\* processor whose sensitivity had been raised to 10.
C14_Witness ==
    \E p \in Proc :
        /\ step.op = "setSensitivity" /\ step.proc = p /\ step.arg < 1
        /\ P[p].sensitivity = 1 /\ app.slider = 10

\* C15: in every frame, the sensitivity field of the snapshot as every
\* observer reads it is the sensitivity of the processor: the value last
\* set with setSensitivity() after clamping, 5 if never set.
C15_SnapshotSensitivity ==
    \A i \in 1..Len(step.frames) :
        LET f == step.frames[i]
        IN \A k \in 1..Len(f.calls) :
               f.calls[k].sensitivity = P[f.proc].sensitivity

\* A frame's bass energy is above the beat threshold of its sensitivity:
\* (sum / count) / 255 > 0.3 * (sensitivity / 5).
Spike(f) ==
    /\ f.snapshot.bass.count > 0
    /\ 50 * f.snapshot.bass.sum > 765 * f.sensitivity * f.snapshot.bass.count

\* C16: beat debounce. A frame with beatDetected = true is at least 300 ms
\* after the previous such frame of the processor; a frame whose bass
\* energy is above the threshold less than 300 ms after the previous beat
\* has beatDetected = false, and more than 300 ms after it (or with no
\* previous beat) has beatDetected = true.
C16_BeatDebounce ==
    \A i \in 1..Len(step.frames) :
        LET f == step.frames[i]
            since == f.at - f.beatAt
        IN /\ (f.snapshot.beatDetected /\ f.beatAt # -1) => since >= 300
           /\ (Spike(f) /\ f.beatAt # -1 /\ since < 300)
                  => ~f.snapshot.beatDetected
           /\ (Spike(f) /\ (f.beatAt = -1 \/ since > 300))
                  => f.snapshot.beatDetected

\* C16 witness: a second beat was published 301 ms after the first, and the
\* processor's beats are then 301 ms apart.
C16_Witness ==
    \E i \in 1..Len(step.frames) :
        LET f == step.frames[i]
        IN /\ f.snapshot.beatDetected
           /\ f.beatAt # -1 /\ f.at - f.beatAt = 301

\* C16 witness of the suppressed case: a spike 150 ms after a beat.
C16_Suppressed ==
    \E i \in 1..Len(step.frames) :
        LET f == step.frames[i]
        IN Spike(f) /\ ~f.snapshot.beatDetected /\ f.at - f.beatAt = 150

\* C17: a frame of silence (every magnitude byte 0) is published with
\* volume 0 and beatDetected = false, whatever the sensitivity, the time and
\* the frames before it.
C17_Silence ==
    \A i \in 1..Len(step.frames) :
        LET f == step.frames[i]
        IN (\A k \in 1..Len(f.snapshot.raw) : f.snapshot.raw[k] = 0) =>
               f.snapshot.volume = 0 /\ ~f.snapshot.beatDetected

\* C17 witness: a frame of silence at sensitivity 1, more than 300 ms after
\* a beat.
C17_Witness ==
    \E i \in 1..Len(step.frames) :
        LET f == step.frames[i]
        IN /\ f.snapshot.raw = Silence /\ f.sensitivity = 1
           /\ f.beatAt # -1 /\ f.at - f.beatAt > 300
           /\ f.snapshot.volume = 0

\* C18: raising the sensitivity never makes the processor less responsive:
\* for the spectrum and the timing of every frame, at every higher
\* sensitivity the volume is at least the frame's and, if the frame has
\* beatDetected = true, so has the frame at the higher sensitivity.
C18_SensitivityMonotone ==
    \A i \in 1..Len(step.frames) :
        LET f == step.frames[i]
        IN \A s2 \in 1..10 :
               s2 > f.sensitivity =>
                   /\ CalculateVolume(f.snapshot.raw, s2) >= f.snapshot.volume
                   /\ (f.snapshot.beatDetected =>
                          DetectBeat(BassBins(f.snapshot.raw), s2, f.at,
                                     f.lastBeatTime))

\* What rawFrequencyData of a held snapshot object reads now: the snapshot
\* references the processor's dataArray, it holds no copy.
RawNow(snapshot) ==
    IF snapshot.rawOf # 0 THEN P[snapshot.rawOf].dataArray
    ELSE snapshot.rawValue

\* C19, retained part: the snapshot the visualization engine retains still
\* reads the rawFrequencyData of the frame it was assembled in.
C19_RetainedUnchanged ==
    app.audioData.held => RawNow(app.audioData) = app.audioData.rawAtFrame

\* C19, observed part: no observer of a frame is left with a sensitivity
\* field different from the one the processor assembled.
C19_SeenAsAssembled ==
    \A i \in 1..Len(step.frames) :
        LET f == step.frames[i]
        IN \A k \in 1..Len(f.calls) :
               f.calls[k].sensitivity = f.snapshot.sensitivity

\* C19: each frame's snapshot is a value nothing modifies afterwards.
C19_SnapshotImmutable == C19_RetainedUnchanged /\ C19_SeenAsAssembled

----------------------------------------------------------------------------
\* C21: while a session is active at most one frame callback of its
\* analysis loop is pending, so each display refresh runs analyzeAudio()
\* once.
C21_OneFrameCallback ==
    \A p \in Proc : P[p].isActive => P[p].raf <= 1

\* C22: backoff schedule. restartAudio() is started only by the callback
\* of a backoff timer; the timer before the n-th attempt of an outage was
\* set with 1000, 2000, 4000 ms for n = 1, 2, 3 and a pending timer with
\* min(1000 * 2^(n-1), 10000) ms for trackFailures = n; the attempt issues
\* one getUserMedia request with the preferred constraints; and neither the
\* start of an attempt nor its outcome creates, closes or replaces the
\* audio context, while success sets stream, source and analyser.
C22_BackoffSchedule ==
    /\ [](\A p \in Proc :
            /\ (P[p].retryTimeout = "pending" =>
                    P[p].retryDelay =
                        IF 1000 * 2 ^ (P[p].trackFailures - 1) < 10000
                        THEN 1000 * 2 ^ (P[p].trackFailures - 1) ELSE 10000)
            /\ (step.op = "timerRestart" /\ step.proc = p =>
                    /\ P[p].attempts \in 1..3
                    /\ step.arg = <<1000, 2000, 4000>>[P[p].attempts]
                    /\ step.gum = 1 /\ step.constraints = "preferred")
            /\ (step.op = "restartResolve" /\ step.proc = p =>
                    /\ P[p].microphone /\ P[p].analyser
                    /\ P[p].stream = "live"))
    /\ [][\A p \in Proc :
            /\ (P'[p].attempts > P[p].attempts \/ P'[p].restarts > P[p].restarts)
                    => step'.op = "timerRestart" /\ step'.proc = p
            /\ (/\ step'.proc = p
                 /\ step'.op \in {"timerRestart", "restartResolve",
                                   "restartResolveThrow", "restartReject"})
                    => /\ P'[p].audioContext = P[p].audioContext
                       /\ P'[p].ctxState = P[p].ctxState
                       /\ P'[p].closeCalls = P[p].closeCalls]_vars

\* C22 witness: the third attempt of an outage starts, 4000 ms after the
\* second failed.
C22_Witness ==
    \E p \in Proc :
        /\ step.op = "timerRestart" /\ step.proc = p /\ step.arg = 4000
        /\ P[p].attempts = 3 /\ P[p].audioContext

\* C23: when restartAudio() resolves the processor is active with a clean
\* slate: trackFailures is 0, no error and no warning is displayed, and
\* isMuted is false.
C23_CleanSlate ==
    \A p \in Proc :
        (step.op = "restartResolve" /\ step.proc = p) =>
            /\ P[p].isActive /\ P[p].trackFailures = 0
            /\ app.audioError = "none"
            /\ ~app.audioWarning
            /\ ~P[p].isMuted

\* C24: beat decision per frame. beatDetected is true if and only if the
\* bass energy exceeds 0.3 * (sensitivity / 5) and at least 300 ms have
\* elapsed since the last frame with a beat (or there was none);
\* lastBeatTime is the frame's time after a frame with a beat and is
\* unchanged by any other frame.
C24_BeatDecision ==
    \A i \in 1..Len(step.frames) :
        LET f == step.frames[i]
            after == IF i < Len(step.frames)
                     THEN step.frames[i + 1].lastBeatTime
                     ELSE P[f.proc].lastBeatTime
        IN /\ f.snapshot.beatDetected <=>
                  (Spike(f) /\ (f.beatAt = -1 \/ f.at - f.beatAt >= 300))
           /\ after = IF f.snapshot.beatDetected THEN f.at ELSE f.lastBeatTime

\* C25: beatDetected is edge-triggered. A frame with beatDetected = true
\* that is not the processor's first such frame follows at least one frame,
\* since the previous one, whose bass energy was at or below the threshold;
\* bass energy held above the threshold yields one beat frame only.
C25_EdgeTriggered ==
    \A i \in 1..Len(step.frames) :
        LET f == step.frames[i]
        IN (f.snapshot.beatDetected /\ f.beatAt # -1) => f.quiet

----------------------------------------------------------------------------
\* findDominantFrequency() with the analyser as initialize() configures it.

\* analyser.frequencyBinCount for fftSize = 1024.
FrequencyBinCount == 512
\* audioContext.sampleRate of the contexts considered.
SampleRates == {44100, 48000}
\* Spectra of FrequencyBinCount bytes: zero but for two bins (0-based).
PeakBins == {0, 1, 2, 40, 84, 85, 86, 91, 92, 93, 300}
PeakSpectra ==
    {[i \in 1..FrequencyBinCount |->
          IF i = b1 + 1 THEN v1 ELSE IF i = b2 + 1 THEN v2 ELSE 0] :
        b1 \in PeakBins, b2 \in PeakBins, v1 \in ByteSamples, v2 \in {0, 100}}

\* The loop of findDominantFrequency from bin i on, with maxIndex and
\* maxValue so far: the final maxIndex.
RECURSIVE DominantLoop(_, _, _, _, _)
DominantLoop(data, i, endBin, maxIndex, maxValue) ==
    IF ~(i < endBin /\ i < Len(data)) THEN maxIndex
    ELSE IF data[i + 1] > maxValue
         THEN DominantLoop(data, i + 1, endBin, i, data[i + 1])
         ELSE DominantLoop(data, i + 1, endBin, maxIndex, maxValue)

\* findDominantFrequency() for dataArray = data (bufferLength bytes) and
\* audioContext.sampleRate = rate: the bin found; the value returned is
\* bin * rate / (2 * bufferLength).
FindDominantFrequency(data, rate) ==
    LET startBin == (2 * 80 * Len(data)) \div rate
        endBin == (2 * 4000 * Len(data)) \div rate
    IN DominantLoop(data, startBin, endBin, 0, 0)

\* The analyser delivers a spectrum.
PeakSound ==
    /\ sound' \in PeakSpectra \ {sound}
    /\ step' = [NoStep EXCEPT !.op = "sound"]
    /\ UNCHANGED <<P, app, gumSupported, granted, clock>>

\* analyzeAudio() computes this.dominantFrequency for a context of the
\* given sample rate; the frame records the rate, the spectrum and the bin.
DominantFrame(rate) ==
    /\ step' = [NoStep EXCEPT
                  !.op = "findDominantFrequency",
                  !.frames = <<[sampleRate |-> rate, raw |-> sound,
                                bin |-> FindDominantFrequency(sound, rate)]>>]
    /\ UNCHANGED <<P, app, gumSupported, granted, sound, clock>>

InitDominant ==
    /\ P = [p \in Proc |-> NewProcessor]
    /\ app = [audioProcessor |-> 0, isRunning |-> FALSE,
              audioError |-> "none", audioWarning |-> FALSE,
              isPaused |-> FALSE, slider |-> 5, audioData |-> NoSnapshot,
              loops |-> 0]
    /\ gumSupported = TRUE
    /\ granted = 0
    /\ sound \in PeakSpectra
    /\ clock = ClockStart
    /\ step = NoStep

NextDominant == PeakSound \/ \E rate \in SampleRates : DominantFrame(rate)

SpecDominant == InitDominant /\ [][NextDominant]_vars

\* The bins of a frame whose frequency bin * rate / (2 * bufferLength) lies
\* in 80 Hz to 4000 Hz.
BinsInBand(f) ==
    {i \in 0..(Len(f.raw) - 1) :
        /\ 80 * 2 * Len(f.raw) <= i * f.sampleRate
        /\ i * f.sampleRate <= 4000 * 2 * Len(f.raw)}

\* C26: dominantFrequency is the frequency of the bin of greatest magnitude
\* among exactly the bins whose frequency lies in 80 Hz to 4000 Hz, the
\* lowest such bin on ties, and 0 when all of them are zero; a non-zero
\* dominantFrequency lies in 80 Hz to 4000 Hz.
C26_DominantInBand ==
    \A k \in 1..Len(step.frames) :
        LET f == step.frames[k]
            band == BinsInBand(f)
            loud == {i \in band : f.raw[i + 1] > 0
                                  /\ \A j \in band : f.raw[j + 1] <= f.raw[i + 1]}
        IN /\ f.bin = IF loud = {} THEN 0
                      ELSE CHOOSE i \in loud : \A j \in loud : i <= j
           /\ f.bin # 0 => f.bin \in band

\* C27: no acquired stream is leaked. Once stop() has been called on a
\* processor and nothing of it is in flight (no getUserMedia request, no
\* timer, no frame callback), no stream it obtained has a live track.
C27_NoStreamLeaked ==
    \A p \in Proc :
        (/\ P[p].stopped
         /\ P[p].initPc \notin {"gum", "basic"}
         /\ P[p].restarts = 0
         /\ PendingTimers(p) = 0
         /\ P[p].raf = 0)
            => LiveStreamsOf(p) = 0

----------------------------------------------------------------------------
\* The application where getUserMedia may resolve with a stream of two
\* audio tracks: initialize() and restartAudio() add an 'ended' listener to
\* each track of the stream.
NextTracks ==
    \/ Next
    \/ \E p \in Proc : InitGumResolveWith(p, 2)
    \/ \E p \in Proc : RestartGumResolveWith(p, 2)
    \/ \E p \in Proc : SpareTrackEnded(p)

SpecTracks == Init /\ [][NextTracks]_vars

C29_SensitivityIsSlider ==
    (app.isRunning /\ app.audioProcessor # 0) =>
        P[app.audioProcessor].sensitivity = app.slider

----------------------------------------------------------------------------
\* VisualizationEngine.animate() run by a pending animation-frame callback
\* of an engine: it renders from the engine's audioData and schedules
\* itself again. The step records the number of loops.
Animate ==
    /\ app.loops > 0
    /\ step' = [Obs("animate", 0, {}, 0, {}, "none") EXCEPT !.arg = app.loops]
    /\ UNCHANGED <<P, app, gumSupported, granted, sound, clock>>

\* The application started and stopped any number of times, with the
\* animation loops of its engines.
NextEngine ==
    \/ StartCall
    \/ AppStop
    \/ \E p \in Proc : InitGumResolve(p)
    \/ \E p \in Proc : Frame(p)
    \/ Animate

SpecEngine == Init /\ [][NextEngine]_vars

\* C30: across start() and stop() at most one animation loop of a
\* VisualizationEngine is scheduled, and once the application is stopped no
\* engine's animate() draws from a snapshot it retained.
C30_OneAnimationLoop ==
    /\ app.loops <= 1
    /\ (step.op = "animate" /\ ~app.isRunning /\ app.audioProcessor = 0)
           => ~app.audioData.held
====
